---- MODULE Spec2Model ----
(***************************************************************************)
(* MediTrack server (server.js): the dashboard aggregation, the bulk       *)
(* export, the bulk import and the database connection supervisor, as a    *)
(* state machine over the one shared database connection.                  *)
(*                                                                         *)
(* A db.query(sql, cb) call puts a query in flight; the database answers   *)
(* each query in flight in a step of its own, with rows or with an error,  *)
(* and the whole callback runs in that step (Node runs a callback and the  *)
(* promise continuations it triggers to completion before the next         *)
(* callback).  The source fixes no order among the queries in flight, so   *)
(* they are answered in any order.                                         *)
(***************************************************************************)
EXTENDS Naturals, Sequences, FiniteSets

VARIABLES
    tables,     \* the database: table name -> list of stored rows
    history,    \* ghost: the database contents after Init and after each write
    dash,       \* GET /api/dashboard-stats requests
    exp,        \* GET /api/export-data requests
    imp,        \* POST /api/import-data requests
    dbState,    \* db.state of the one connection: "connected" or "disconnected"
    attempts,   \* db.connect calls whose callback has not run yet
    timers,     \* pending setTimeout(connectWithRetry, 5000) timers
    proc,       \* the process: "running", "closing" (db.end called) or "exited"
    endCalls,   \* db.end calls whose callback has not run yet
    exitCode,   \* the argument of process.exit, once exited
    lastError,  \* ghost: the code of the latest connection error event
    released    \* ghost: how db.end called back: "none", "ok" or "err"

\* The connection supervisor and the process.
sup == <<dbState, attempts, timers, proc, endCalls, exitCode, lastError, released>>

vars == <<tables, history, dash, exp, imp, sup>>

\* ------------------------------------------------------------------ bounds

\* Longest medications list of an import body.
MaxLen == 2
\* Most rows a table holds in the initial state.
MaxRows == 1
\* Most connect attempts and retry timers pending at once.
MaxPending == 4
\* Most shutdown() calls of one process.
MaxShutdowns == 2
\* Most medications rows the table holds before a round trip.
MaxRoundRows == 2

\* ------------------------------------------------------------ JS / SQL values

\* Object.keys(queries) / Object.keys(exportQueries), in source order.
TableOrder == <<"medications", "reminders", "vitals", "appointments">>

Tables == {TableOrder[k] : k \in 1..Len(TableOrder)}

\* const totalQueries = Object.keys(queries).length
TotalQueries == Len(TableOrder)

\* An object with no keys (const results = {}, const exportData = {}).
EmptyObject == [k \in {} |-> k]

\* obj[key] = value
SetKey(obj, key, value) ==
    [k \in DOMAIN obj \cup {key} |-> IF k = key THEN value ELSE obj[k]]

\* JS undefined, as the value of a missing key.
Undefined == [type |-> "undefined"]

\* The SQL NULL that SUM yields over no rows.
SqlNull == [type |-> "null"]

\* A number as a column value of a result row.
Num(n) == [type |-> "number", value |-> n]

\* A truthiness that takes every defined value, the number 0 too, for true.
TruthyIfDefined(v) == v # "undefined"

\* JS truthiness of the values a `taken` field takes.
Truthy(v) == v \in {"true", "1"}

\* a || b
JsOr(a, b) == IF Truthy(a) THEN a ELSE b

\* med.<key>: undefined when the record has no such field.
Field(med, key) == IF key \in DOMAIN med THEN med[key] ELSE "undefined"

\* What the driver writes into a TINYINT column for a JS value.
SqlTinyInt(v) == IF Truthy(v) THEN 1 ELSE 0

\* What the driver hands back for a TINYINT column: a JS number.
JsNumber(n) == IF n = 1 THEN "1" ELSE "0"

\* ------------------------------------------------------------------ the database

RECURSIVE SumOver(_, _)
\* SUM(f) over a list of 0/1 values, as a natural number.
SumOver(rows, f) ==
    IF rows = <<>> THEN 0 ELSE rows[1][f] + SumOver(Tail(rows), f)

\* SUM(expr): NULL over an empty table.
SqlSum(rows, f) == IF rows = <<>> THEN SqlNull ELSE Num(SumOver(rows, f))

\* DATE(date_time) = CURDATE(), date_time >= NOW(): the stored date_time is
\* kept as its position relative to the server's clock.
IsToday(dt) == IF dt = "today_later" THEN 1 ELSE 0
IsUpcoming(dt) == IF dt \in {"today_later", "future"} THEN 1 ELSE 0

Flags(rows) ==
    [k \in 1..Len(rows) |->
        [today |-> IsToday(rows[k].date_time), upcoming |-> IsUpcoming(rows[k].date_time)]]

\* The single row each summary query of getDashboardStats returns.
Summary(t, rows) ==
    CASE t = "medications" ->
            [total |-> Num(Len(rows)), taken |-> SqlSum(rows, "taken")]
      [] t = "reminders" ->
            [total |-> Num(Len(rows)), today |-> SqlSum(Flags(rows), "today"),
             upcoming |-> SqlSum(Flags(rows), "upcoming")]
      [] t = "vitals" ->
            [total |-> Num(Len(rows))]
      [] t = "appointments" ->
            [total |-> Num(Len(rows)), upcoming |-> SqlSum(Flags(rows), "upcoming")]

\* The result of a summary query: a list of one row.
SummaryRows(t, db) == <<Summary(t, db[t])>>

\* The four summaries of one database state.
DbSummary(db) == [t \in Tables |-> Summary(t, db[t])]

\* A stored medications row as the driver returns it from SELECT *.
SelectedRow(t, row) ==
    IF t = "medications"
    THEN [name |-> row.name, dosage |-> row.dosage, frequency |-> row.frequency,
          time |-> row.time, taken |-> JsNumber(row.taken)]
    ELSE row

\* SELECT * FROM <t>
SelectAll(t, db) == [k \in 1..Len(db[t]) |-> SelectedRow(t, db[t][k])]

\* The error codes a failing query reports.
ErrCodes == {"PROTOCOL_CONNECTION_LOST", "ER_LOCK_WAIT_TIMEOUT"}

\* The codes of the connectivity errors: connection refused, connection lost.
ConnCodes == {"ECONNREFUSED", "PROTOCOL_CONNECTION_LOST"}

\* err.message of an error.
Message(code) ==
    CASE code = "PROTOCOL_CONNECTION_LOST" -> "Connection lost"
      [] code = "ECONNREFUSED" -> "connect ECONNREFUSED"
      [] OTHER -> "Lock wait timeout exceeded"

\* err.code.startsWith('ER_'), over the codes of the model.
StartsWithER(code) == code = "ER_LOCK_WAIT_TIMEOUT"

\* The status the error-handling middleware answers an error passed to it.
ErrorMiddleware(code) ==
    IF code = "ECONNREFUSED" \/ code = "PROTOCOL_CONNECTION_LOST" THEN 503
    ELSE IF StartsWithER(code) THEN 400
    ELSE 500

\* The callback arguments (err, results) of an answered query.
Reply(code, rows) == [err |-> code, rows |-> rows]
NoErr == "null"

\* Stored rows the tables start with.
StoredMeds ==
    { [name |-> "Aspirin", dosage |-> "81mg", frequency |-> "daily",
       time |-> "08:00", taken |-> 1],
      [name |-> "Insulin", dosage |-> "10u", frequency |-> "daily",
       time |-> "07:00", taken |-> 0] }

\* One stored row of each of the other tables.
OtherRow(t) ==
    CASE t = "reminders" -> [date_time |-> "today_later"]
      [] t = "vitals" -> [type |-> "pulse"]
      [] t = "appointments" -> [date_time |-> "future"]

SeqsUpTo(S, n) == UNION {[1..k -> S] : k \in 0..n}

\* ------------------------------------------------------- dashboard aggregation

DashIds == {1, 2}

IdleDash ==
    [phase |-> "idle", pending |-> {}, hung |-> {}, results |-> EmptyObject,
     completedQueries |-> 0, replies |-> EmptyObject, since |-> 0, upto |-> 0,
     status |-> 0, body |-> Undefined, sent |-> 0]

\* Fallback with the medications error branch keeping no fallback row.
FallbackMissing(t) ==
    CASE t = "medications" -> Undefined
      [] t = "reminders" -> [total |-> Num(0), today |-> Num(0), upcoming |-> Num(0)]
      [] t = "vitals" -> [total |-> Num(0)]
      [] t = "appointments" -> [total |-> Num(0), upcoming |-> Num(0)]

\* The fixed fallback rows of the four error branches.
Fallback(t) ==
    CASE t = "medications" -> [total |-> Num(0), taken |-> Num(0)]
      [] t = "reminders" -> [total |-> Num(0), today |-> Num(0), upcoming |-> Num(0)]
      [] t = "vitals" -> [total |-> Num(0)]
      [] t = "appointments" -> [total |-> Num(0), upcoming |-> Num(0)]

\* results.<t>[0]
FirstRow(results, t) ==
    IF t \in DOMAIN results /\ Len(results[t]) > 0 THEN results[t][1] ELSE Undefined

\* The object getDashboardStats resolves with.
Stats(results) ==
    [medications |-> FirstRow(results, "medications"),
     reminders |-> FirstRow(results, "reminders"),
     vitals |-> FirstRow(results, "vitals"),
     appointments |-> FirstRow(results, "appointments"),
     lastUpdated |-> "toISOString"]

\* res.json(stats) of the route, run when the promise resolves.
DashRespond(r) ==
    [r EXCEPT !.phase = "done", !.status = 200, !.body = Stats(r.results),
              !.sent = r.sent + 1]

\* completedQueries === totalQueries - 1: an off-by-one join.
AllCompletedEarly(n) == n + 1 = TotalQueries

\* completedQueries === totalQueries
AllCompleted(n) == n = TotalQueries

\* checkCompletion of getDashboardStats.
DashCheckCompletion(r) ==
    LET r1 == [r EXCEPT !.completedQueries = r.completedQueries + 1]
    IN  IF AllCompleted(r1.completedQueries) THEN DashRespond(r1) ELSE r1

\* results.<t> = err ? [fallback] : rows
DashStore(results, t, reply) ==
    SetKey(results, t, IF reply.err # NoErr THEN <<Fallback(t)>> ELSE reply.rows)

\* The callback of the summary query of table t.
DashCallback(r, t, reply) ==
    DashCheckCompletion([r EXCEPT !.results = DashStore(r.results, t, reply)])

\* getDashboardStats(): the four db.query calls.  Requests are numbered in
\* the order they arrive.  H is the set of tables whose query the driver
\* never calls back (ghost).
DashBegin(d, H) ==
    /\ dash[d].phase = "idle"
    /\ \A x \in DashIds : x < d => dash[x].phase # "idle"
    /\ dash' = [dash EXCEPT ![d] =
                   [IdleDash EXCEPT !.phase = "running", !.pending = Tables,
                                    !.hung = H, !.since = Len(history)]]
    /\ UNCHANGED <<tables, history, exp, imp, sup>>

\* A dashboard request all of whose queries are called back.
DashStart(d) == DashBegin(d, {})

\* The request record of d as the database answers its query on table t
\* (ghost: what was answered, and when).
Answered(d, t, reply) ==
    [dash[d] EXCEPT !.pending = @ \ {t}, !.replies = SetKey(@, t, reply),
                    !.upto = Len(history)]

\* The callbacks writing to one results object shared by all requests.
DashAnswerShared(d, t, reply) ==
    /\ t \in dash[d].pending \ dash[d].hung
    /\ dash' = [x \in DashIds |->
                   IF x = d THEN DashCallback(Answered(d, t, reply), t, reply)
                   ELSE IF dash[x].phase = "running"
                   THEN [dash[x] EXCEPT !.results = DashStore(@, t, reply)]
                   ELSE dash[x]]
    /\ UNCHANGED <<tables, history, exp, imp, sup>>

\* The database answers request d's query on table t: results and
\* completedQueries are locals of that call of getDashboardStats.
DashAnswer(d, t, reply) ==
    /\ t \in dash[d].pending \ dash[d].hung
    /\ dash' = [dash EXCEPT ![d] = DashCallback(Answered(d, t, reply), t, reply)]
    /\ UNCHANGED <<tables, history, exp, imp, sup>>

DashQueryOk(d, t) == DashAnswer(d, t, Reply(NoErr, SummaryRows(t, tables)))

DashQueryErr(d, t, code) == DashAnswer(d, t, Reply(code, <<>>))

\* ------------------------------------------------------------------ bulk export

ExpIds == {1}

IdleExp ==
    [phase |-> "idle", pending |-> {}, hung |-> {}, exportData |-> EmptyObject,
     completedQueries |-> 0, replies |-> EmptyObject, status |-> 0, body |-> Undefined, sent |-> 0]

\* An export that answers 503 when a table's query failed.
ExpRespondUnavailable(r) ==
    [r EXCEPT !.phase = "done", !.sent = r.sent + 1,
              !.status = IF \E t \in DOMAIN r.exportData : r.exportData[t].type = "object"
                         THEN 503 ELSE 200,
              !.body = [success |-> TRUE, exportedAt |-> "toISOString",
                        data |-> r.exportData]]

\* res.json({success: true, exportedAt, data: exportData})
ExpRespond(r) ==
    [r EXCEPT !.phase = "done", !.status = 200, !.sent = r.sent + 1,
              !.body = [success |-> TRUE, exportedAt |-> "toISOString",
                        data |-> r.exportData]]

\* A checkCompletion that answers at every callback.
ExpCheckCompletionEach(r) ==
    ExpRespond([r EXCEPT !.completedQueries = r.completedQueries + 1])

\* checkCompletion of the export route.
ExpCheckCompletion(r) ==
    LET r1 == [r EXCEPT !.completedQueries = r.completedQueries + 1]
    IN  IF AllCompleted(r1.completedQueries) THEN ExpRespond(r1) ELSE r1

\* An export that stores an empty row list for a failing table.
ExpStoreMasking(exportData, t, reply) ==
    SetKey(exportData, t, [type |-> "array", items |-> reply.rows])

\* exportData[table] = err ? {error: err.message} : results
ExpStore(exportData, t, reply) ==
    SetKey(exportData, t,
           IF reply.err # NoErr
           THEN [type |-> "object", error |-> Message(reply.err)]
           ELSE [type |-> "array", items |-> reply.rows])

\* The callback of the SELECT * of table t.
ExpCallback(r, t, reply) ==
    ExpCheckCompletion([r EXCEPT !.exportData = ExpStore(r.exportData, t, reply)])

\* The forEach over the four tables: four db.query calls.  H is the set of
\* tables whose query the driver never calls back (ghost).
ExpBegin(e, H) ==
    /\ exp[e].phase = "idle"
    /\ exp' = [exp EXCEPT ![e] = [IdleExp EXCEPT !.phase = "running", !.pending = Tables,
                                                 !.hung = H]]
    /\ UNCHANGED <<tables, history, dash, imp, sup>>

\* An export request all of whose queries are called back.
ExpStart(e) == ExpBegin(e, {})

ExpAnswer(e, t, reply) ==
    /\ t \in exp[e].pending \ exp[e].hung
    /\ exp' = [exp EXCEPT ![e] =
                  ExpCallback([exp[e] EXCEPT !.pending = @ \ {t},
                                             !.replies = SetKey(@, t, reply)],
                              t, reply)]
    /\ UNCHANGED <<tables, history, dash, imp, sup>>

ExpQueryOk(e, t) == ExpAnswer(e, t, Reply(NoErr, SelectAll(t, tables)))

ExpQueryErr(e, t, code) == ExpAnswer(e, t, Reply(code, <<>>))

\* ------------------------------------------------------------------ bulk import

ImpIds == {1, 2}

\* The records of an import body's medications list.
MedInputs ==
    { [name |-> "Aspirin", dosage |-> "81mg", frequency |-> "daily", time |-> "08:00"],
      [name |-> "Insulin", dosage |-> "10u", frequency |-> "daily", time |-> "07:00",
       taken |-> "true"] }

JsArray(items) == [type |-> "array", items |-> items]

\* A record of an import body's reminders list.
ReminderInput == [title |-> "Walk", date_time |-> "today", completed |-> "false"]

\* Import data without a medications key: an empty reminders list, reminders
\* and vitals with a record each, and a key that names no table.
OtherData ==
    { [reminders |-> JsArray(<<>>)],
      [reminders |-> JsArray(<<ReminderInput>>),
       vitals |-> JsArray(<<[type |-> "pulse", value |-> "70"]>>)],
      [notes |-> JsArray(<<[text |-> "n"]>>)] }

\* Request bodies: no data field; a medications list; data without a
\* medications key.
Bodies ==
    {EmptyObject}
    \cup {[data |-> [medications |-> JsArray(L)]] : L \in SeqsUpTo(MedInputs, MaxLen)}
    \cup {[data |-> d] : d \in OtherData}

IdleImp ==
    [phase |-> "idle", body |-> EmptyObject, del |-> "none", ins |-> "none",
     promise |-> "none", queries |-> 0, before |-> <<>>, disturbed |-> FALSE,
     failure |-> NoErr, status |-> 0, reply |-> Undefined, sent |-> 0]

\* A handler without the `if (!data)` check.
NoDataUnchecked(body) == FALSE

\* const { data } = req.body; if (!data)
NoData(body) == "data" \notin DOMAIN body

\* A handler that takes any data for a medications import.
HasAnyData(body) == "data" \in DOMAIN body

\* if (data.medications): arrays and objects are truthy, a missing key is not.
HasMedications(body) == "data" \in DOMAIN body /\ "medications" \in DOMAIN body.data

\* data.medications
Medications(body) ==
    IF "data" \in DOMAIN body /\ "medications" \in DOMAIN body.data
    THEN body.data.medications ELSE Undefined

\* data.medications.length > 0: undefined > 0 is false for a value that is no array.
NonEmpty(v) == v.type = "array" /\ Len(v.items) > 0

\* The row mapping with `med.taken || true`.
ImportRowDefaultTrue(med) ==
    [name |-> Field(med, "name"), dosage |-> Field(med, "dosage"),
     frequency |-> Field(med, "frequency"), time |-> Field(med, "time"),
     taken |-> SqlTinyInt(JsOr(Field(med, "taken"), "true"))]

\* [med.name, med.dosage, med.frequency, med.time, med.taken || false], as the
\* row the INSERT stores in columns (name, dosage, frequency, time, taken).
ImportRow(med) ==
    [name |-> Field(med, "name"), dosage |-> Field(med, "dosage"),
     frequency |-> Field(med, "frequency"), time |-> Field(med, "time"),
     taken |-> SqlTinyInt(JsOr(Field(med, "taken"), "false"))]

\* A mapping that yields the rows in reverse order.
ImportValuesReversed(v) ==
    [k \in 1..Len(v.items) |-> ImportRow(v.items[Len(v.items) + 1 - k])]

\* data.medications.map(...)
ImportValues(v) == [k \in 1..Len(v.items) |-> ImportRow(v.items[k])]

\* res.status(code).json(reply)
ImpRespond(r, code, reply) ==
    [r EXCEPT !.phase = "done", !.status = code, !.reply = reply, !.sent = r.sent + 1]

\* A resolve() that answers success though the promise is settled already.
ResolveAgain(r) ==
    ImpRespond([r EXCEPT !.promise = "resolved"], 200,
               [success |-> TRUE, message |-> "Data imported successfully"])

\* resolve(): settles the promise once; Promise.all(...).then answers success.
Resolve(r) ==
    IF r.promise # "pending" THEN r
    ELSE ImpRespond([r EXCEPT !.promise = "resolved"], 200,
                    [success |-> TRUE, message |-> "Data imported successfully"])

\* A reject that is dropped, so that a later resolve() settles the promise.
RejectDropped(r) == r

\* reject(err): settles the promise once; .catch answers the generic 500.
Reject(r) ==
    IF r.promise # "pending" THEN r
    ELSE ImpRespond([r EXCEPT !.promise = "rejected"], 500,
                    [error |-> "Failed to import data"])

\* db.query('INSERT INTO medications ...', [values], cb)
IssueInsert(r) == [r EXCEPT !.ins = "pending", !.queries = r.queries + 1]

\* A DELETE callback that issues the INSERT for an empty list too.
AfterDeleteAlwaysInsert(r) == IssueInsert(r)

\* The statements of the DELETE callback after `if (err) reject(err);`.
AfterDelete(r) ==
    IF NonEmpty(Medications(r.body)) THEN IssueInsert(r) ELSE Resolve(r)

\* The callback of the DELETE.
DeleteCallback(r, err) ==
    AfterDelete(IF err # NoErr THEN Reject(r) ELSE r)

\* The callback of the INSERT: err ? reject(err) : resolve()
InsertCallback(r, err) == IF err # NoErr THEN Reject(r) ELSE Resolve(r)

\* A write by request i reaches the table: every other started import sees
\* another writer (ghost).
Disturb(i) ==
    [j \in ImpIds |->
        IF j # i /\ imp[j].phase # "idle" THEN [imp[j] EXCEPT !.disturbed = TRUE]
        ELSE imp[j]]

\* The route handler up to the end of its synchronous part.
ImportHandle(r, body) ==
    LET r0 == [r EXCEPT !.phase = "running", !.body = body,
                        !.before = tables["medications"]]
    IN  IF NoData(body)
        THEN ImpRespond(r0, 400, [error |-> "No data provided for import"])
        ELSE IF HasMedications(body)
        THEN [r0 EXCEPT !.promise = "pending", !.del = "pending", !.queries = 1]
        ELSE Resolve([r0 EXCEPT !.promise = "pending"])

ImportStart(i, body) ==
    /\ imp[i].phase = "idle"
    /\ \A x \in ImpIds : x < i => imp[x].phase # "idle"
    /\ imp' = [imp EXCEPT ![i] = ImportHandle(imp[i], body)]
    /\ UNCHANGED <<tables, history, dash, exp, sup>>

\* A DELETE that matches no row and reports success.
ImportDeleteNothing(i) ==
    /\ imp[i].del = "pending"
    /\ history' = Append(history, tables)
    /\ imp' = [Disturb(i) EXCEPT ![i] = DeleteCallback([imp[i] EXCEPT !.del = "ok"], NoErr)]
    /\ UNCHANGED <<tables, dash, exp, sup>>

\* DELETE FROM medications succeeds.
ImportDeleteOk(i) ==
    /\ imp[i].del = "pending"
    /\ tables' = [tables EXCEPT !["medications"] = <<>>]
    /\ history' = Append(history, tables')
    /\ imp' = [Disturb(i) EXCEPT ![i] = DeleteCallback([imp[i] EXCEPT !.del = "ok"], NoErr)]
    /\ UNCHANGED <<dash, exp, sup>>

\* DELETE FROM medications fails: the table is as it was.
ImportDeleteErr(i, code) ==
    /\ imp[i].del = "pending"
    /\ imp' = [imp EXCEPT ![i] =
                  DeleteCallback([imp[i] EXCEPT !.del = "err", !.failure = code], code)]
    /\ UNCHANGED <<tables, history, dash, exp, sup>>

\* INSERT INTO medications ... VALUES ? succeeds: the rows are appended.
ImportInsertOk(i) ==
    /\ imp[i].ins = "pending"
    /\ tables' = [tables EXCEPT !["medications"] =
                     @ \o ImportValues(Medications(imp[i].body))]
    /\ history' = Append(history, tables')
    /\ imp' = [Disturb(i) EXCEPT ![i] = InsertCallback([imp[i] EXCEPT !.ins = "ok"], NoErr)]
    /\ UNCHANGED <<dash, exp, sup>>

\* The INSERT fails: the table is as it was.
ImportInsertErr(i, code) ==
    /\ imp[i].ins = "pending"
    /\ imp' = [imp EXCEPT ![i] =
                  InsertCallback([imp[i] EXCEPT !.ins = "err", !.failure = code], code)]
    /\ UNCHANGED <<tables, history, dash, exp, sup>>

\* --------------------------------------------------------- connection supervisor

\* The codes of connection error events: the two the handler recovers from,
\* and one it does not.
ErrorEventCodes == {"PROTOCOL_CONNECTION_LOST", "ECONNRESET", "EPIPE"}

\* A handler that reconnects on every error event.
IsLostAny(code) == TRUE

\* A handler that recovers from PROTOCOL_CONNECTION_LOST alone.
IsLostProtocolOnly(code) == code = "PROTOCOL_CONNECTION_LOST"

\* err.code === 'PROTOCOL_CONNECTION_LOST' || err.code === 'ECONNRESET'
IsLost(code) == code = "PROTOCOL_CONNECTION_LOST" \/ code = "ECONNRESET"

\* Room for one more pending connect attempt or retry timer.
Room == attempts + timers < MaxPending

\* A connectWithRetry() that returns while a connect attempt is in flight.
ConnectWithRetryOnce == attempts' = IF attempts > 0 THEN attempts ELSE attempts + 1

\* connectWithRetry(): one db.connect call.
ConnectWithRetry == attempts' = attempts + 1

\* shutdown(): one db.end call.
Shutdown ==
    /\ proc' = "closing"
    /\ endCalls' = endCalls + 1

\* The state after the module has loaded: connectWithRetry() has been called
\* once and db.connect has not called back.
InitSup ==
    /\ dbState = "disconnected"
    /\ attempts = 1
    /\ timers = 0
    /\ proc = "running"
    /\ endCalls = 0
    /\ exitCode = 0
    /\ lastError = "none"
    /\ released = "none"

\* The db.connect callback without err: the handshake succeeded.
\* verifyTables() then only logs.
ConnectOk ==
    /\ proc # "exited"
    /\ attempts > 0
    /\ attempts' = attempts - 1
    /\ dbState' = "connected"
    /\ UNCHANGED <<tables, history, dash, exp, imp, timers, proc, endCalls,
                   exitCode, lastError, released>>

\* A failure callback that logs and schedules nothing.
ScheduleNothing == timers' = timers

\* setTimeout(connectWithRetry, 5000): one more pending timer.
ScheduleRetry == timers' = timers + 1

\* The db.connect callback with err: log, then schedule the retry.
ConnectFail ==
    /\ proc # "exited"
    /\ attempts > 0
    /\ attempts' = attempts - 1
    /\ ScheduleRetry
    /\ UNCHANGED <<tables, history, dash, exp, imp, dbState, proc, endCalls,
                   exitCode, lastError, released>>

\* A retry timer fires: connectWithRetry().
RetryTimer ==
    /\ proc # "exited"
    /\ timers > 0
    /\ timers' = timers - 1
    /\ ConnectWithRetry
    /\ UNCHANGED <<tables, history, dash, exp, imp, dbState, proc, endCalls,
                   exitCode, lastError, released>>

\* The 'error' event of the connection, which the driver emits as the
\* established connection breaks: reconnect on the two lost-connection
\* codes, and otherwise throw, which the uncaughtException handler turns
\* into shutdown().
DbError(code) ==
    /\ proc # "exited"
    /\ dbState = "connected"
    /\ Room
    /\ endCalls < MaxShutdowns
    /\ dbState' = "disconnected"
    /\ lastError' = code
    /\ IF IsLost(code)
       THEN ConnectWithRetry /\ UNCHANGED <<proc, endCalls>>
       ELSE Shutdown /\ UNCHANGED attempts
    /\ UNCHANGED <<tables, history, dash, exp, imp, timers, exitCode, released>>

\* A check that reconnects whatever the state is.
NotConnectedAlways == TRUE

\* db.state !== 'connected'
NotConnected == dbState # "connected"

\* The setInterval callback, every 30000 ms.
LivenessCheck ==
    /\ proc # "exited"
    /\ Room
    /\ IF NotConnected THEN ConnectWithRetry ELSE UNCHANGED attempts
    /\ UNCHANGED <<tables, history, dash, exp, imp, dbState, timers, proc, endCalls,
                   exitCode, lastError, released>>

\* SIGINT or SIGTERM: shutdown().
Signal ==
    /\ proc # "exited"
    /\ endCalls < MaxShutdowns
    /\ Shutdown
    /\ UNCHANGED <<tables, history, dash, exp, imp, dbState, attempts, timers,
                   exitCode, lastError, released>>

\* A shutdown that reports success whatever db.end reported.
ExitCodeAlwaysZero(err) == 0

\* if (err) process.exit(1); otherwise process.exit(0).
ExitCodeFor(err) == IF err # NoErr THEN 1 ELSE 0

\* The db.end callback: the process exits with the code the error selects.
EndCallback(err) ==
    /\ proc = "closing"
    /\ endCalls > 0
    /\ proc' = "exited"
    /\ endCalls' = endCalls - 1
    /\ released' = IF err # NoErr THEN "err" ELSE "ok"
    /\ exitCode' = ExitCodeFor(err)
    /\ dbState' = "disconnected"
    /\ UNCHANGED <<tables, history, dash, exp, imp, attempts, timers, lastError>>

EndOk == EndCallback(NoErr)

\* db.end reports that the connection was already lost.
EndErr == EndCallback("PROTOCOL_CONNECTION_LOST")

\* ------------------------------------------------------------------ specifications

\* Each of the other three tables starts empty or with one row.
OtherTables == {[t \in Tables \ {"medications"} |-> IF full THEN <<OtherRow(t)>> ELSE <<>>] :
                   full \in BOOLEAN}

Init ==
    /\ \E meds \in SeqsUpTo(StoredMeds, MaxRows), others \in OtherTables :
          tables = [t \in Tables |-> IF t = "medications" THEN meds ELSE others[t]]
    /\ history = <<tables>>
    /\ dash = [d \in DashIds |-> IdleDash]
    /\ exp = [e \in ExpIds |-> IdleExp]
    /\ imp = [i \in ImpIds |-> IdleImp]
    /\ InitSup

\* The code a failing query of the aggregation reports (the callbacks read
\* only whether err is set).
SomeErr == "ER_LOCK_WAIT_TIMEOUT"

\* One dashboard request and one export request, no writer.
NextAgg ==
    \/ \E d \in {1} : DashStart(d)
    \/ \E d \in {1}, t \in Tables : DashQueryOk(d, t)
    \/ \E d \in {1}, t \in Tables : DashQueryErr(d, t, SomeErr)
    \/ \E e \in ExpIds : ExpStart(e)
    \/ \E e \in ExpIds, t \in Tables : ExpQueryOk(e, t)
    \/ \E e \in ExpIds, t \in Tables, code \in ErrCodes : ExpQueryErr(e, t, code)

SpecAgg == Init /\ [][NextAgg]_vars

\* The import requests alone.
NextImport ==
    \/ \E i \in ImpIds, body \in Bodies : ImportStart(i, body)
    \/ \E i \in ImpIds : ImportDeleteOk(i)
    \/ \E i \in ImpIds : ImportDeleteErr(i, SomeErr)
    \/ \E i \in ImpIds : ImportInsertOk(i)
    \/ \E i \in ImpIds : ImportInsertErr(i, SomeErr)

SpecImport == Init /\ [][NextImport]_vars

\* The import body of the specification's example: one record, no taken field.
AspirinBody ==
    [data |-> [medications |-> JsArray(<<[name |-> "Aspirin", dosage |-> "81mg",
                                          frequency |-> "daily", time |-> "08:00"]>>)]]

\* Every table starts with one row.
InitSnap ==
    /\ Init
    /\ \A t \in Tables : Len(tables[t]) = 1
    /\ tables["medications"][1].taken = 1

\* Two dashboard requests in flight while one import rewrites medications.
NextSnap ==
    \/ \E d \in DashIds : DashStart(d)
    \/ \E d \in DashIds, t \in Tables : DashQueryOk(d, t)
    \/ \E d \in DashIds, t \in Tables : DashQueryErr(d, t, SomeErr)
    \/ ImportStart(1, AspirinBody)
    \/ ImportDeleteOk(1)
    \/ ImportDeleteErr(1, SomeErr)
    \/ ImportInsertOk(1)
    \/ ImportInsertErr(1, SomeErr)

SpecSnap == InitSnap /\ [][NextSnap]_vars

\* One request to each of the three endpoints, in flight together; a failing
\* query reports a connectivity error.
NextServe ==
    \/ DashStart(1)
    \/ \E t \in Tables : DashQueryOk(1, t)
    \/ \E t \in Tables : DashQueryErr(1, t, "ECONNREFUSED")
    \/ ExpStart(1)
    \/ \E t \in Tables : ExpQueryOk(1, t)
    \/ \E t \in Tables : ExpQueryErr(1, t, "PROTOCOL_CONNECTION_LOST")
    \/ ImportStart(1, AspirinBody)
    \/ ImportDeleteOk(1)
    \/ \E code \in ConnCodes : ImportDeleteErr(1, code)
    \/ ImportInsertOk(1)
    \/ \E code \in ConnCodes : ImportInsertErr(1, code)

SpecServe == InitSnap /\ [][NextServe]_vars

\* The sets of queries of one request that are never called back: none, or
\* one of the four.
HungSets == {{}} \cup {{t} : t \in Tables}

\* One dashboard request and one export request, some of whose queries may
\* never be called back; the query that may fail is the one on medications.
NextHang ==
    \/ \E H \in HungSets : DashBegin(1, H)
    \/ \E t \in Tables : DashQueryOk(1, t)
    \/ DashQueryErr(1, "medications", SomeErr)
    \/ \E H \in HungSets : ExpBegin(1, H)
    \/ \E t \in Tables : ExpQueryOk(1, t)
    \/ ExpQueryErr(1, "medications", SomeErr)

\* Every query that is not hung is called back, with rows or with an error.
FairHang ==
    /\ WF_vars(\E t \in Tables : DashQueryOk(1, t) \/ DashQueryErr(1, t, SomeErr))
    /\ WF_vars(\E t \in Tables : ExpQueryOk(1, t) \/ ExpQueryErr(1, t, SomeErr))

SpecHang == InitSnap /\ [][NextHang]_vars /\ FairHang

\* The medications table starts with up to MaxRoundRows rows, each of the
\* other tables with one.
InitRound ==
    /\ \E meds \in SeqsUpTo(StoredMeds, MaxRoundRows) :
          tables = [t \in Tables |-> IF t = "medications" THEN meds ELSE <<OtherRow(t)>>]
    /\ history = <<tables>>
    /\ dash = [d \in DashIds |-> IdleDash]
    /\ exp = [e \in ExpIds |-> IdleExp]
    /\ imp = [i \in ImpIds |-> IdleImp]
    /\ InitSup

\* The client posts the data object of the answered export e back as the
\* body of import i.
ExportedBody(e) == [data |-> exp[e].body.data]

ImportExported(i, e) ==
    /\ exp[e].phase = "done"
    /\ ImportStart(i, ExportedBody(e))

\* An export, and then an import of what it returned.
NextRound ==
    \/ ExpStart(1)
    \/ \E t \in Tables : ExpQueryOk(1, t)
    \/ \E t \in Tables : ExpQueryErr(1, t, SomeErr)
    \/ ImportExported(1, 1)
    \/ ImportDeleteOk(1)
    \/ ImportDeleteErr(1, SomeErr)
    \/ ImportInsertOk(1)
    \/ ImportInsertErr(1, SomeErr)

SpecRound == InitRound /\ [][NextRound]_vars

\* The connection supervisor and the process, over a database at rest.
NextSup ==
    \/ ConnectOk
    \/ ConnectFail
    \/ RetryTimer
    \/ \E code \in ErrorEventCodes : DbError(code)
    \/ LivenessCheck
    \/ Signal
    \/ EndOk
    \/ EndErr

SpecSup == InitSnap /\ [][NextSup]_vars

\* The supervisor under the scheduling Node and the driver provide: every
\* db.connect call and every db.end call is called back, and every pending
\* timer fires.
FairSup ==
    /\ WF_vars(ConnectOk \/ ConnectFail)
    /\ WF_vars(RetryTimer)
    /\ WF_vars(EndOk \/ EndErr)

SpecSupLive == SpecSup /\ FairSup

\* ------------------------------------------------------------------ C1

\* The zero fallbacks as the specification documents them.
ZeroRow(t) ==
    CASE t = "medications" -> [total |-> Num(0), taken |-> Num(0)]
      [] t = "reminders" -> [total |-> Num(0), today |-> Num(0), upcoming |-> Num(0)]
      [] t = "vitals" -> [total |-> Num(0)]
      [] t = "appointments" -> [total |-> Num(0), upcoming |-> Num(0)]

\* The tables whose query failed / succeeded, by what the database answered.
Failed(r) == {t \in DOMAIN r.replies : r.replies[t].err # NoErr}
Succeeded(r) == {t \in DOMAIN r.replies : r.replies[t].err = NoErr}

\* C1: whichever of the four summary queries fail, an answered dashboard
\* request has status 200 and a body with all four table keys, a failing
\* table's value being its zero fallback and a succeeding table's value the
\* single row its query returned.
C1_DashboardFallback ==
    \A d \in DashIds :
        dash[d].phase = "done" =>
            /\ dash[d].status = 200
            /\ Tables \subseteq DOMAIN dash[d].body
            /\ \A t \in Failed(dash[d]) : dash[d].body[t] = ZeroRow(t)
            /\ \A t \in Succeeded(dash[d]) :
                  /\ Len(dash[d].replies[t].rows) = 1
                  /\ dash[d].body[t] = dash[d].replies[t].rows[1]

\* An answered request with a failed medications query, a succeeding
\* non-empty table and two more failures.
C1_Witness ==
    /\ dash[1].phase = "done"
    /\ Failed(dash[1]) = {"medications", "vitals", "appointments"}
    /\ dash[1].body["reminders"].total = Num(1)
    /\ Len(tables["medications"]) = 1

\* ------------------------------------------------------------------ C2

\* C2: whichever of the four export queries fail, an answered export has
\* success = true and a data object with exactly the four table keys; a failed
\* table maps to an object with an error key and no row list, a succeeding
\* table to the row list its query returned.
C2_ExportShape ==
    \A e \in ExpIds :
        exp[e].phase = "done" =>
            /\ exp[e].body.success = TRUE
            /\ DOMAIN exp[e].body.data = Tables
            /\ \A t \in Failed(exp[e]) :
                  /\ exp[e].body.data[t].type = "object"
                  /\ "error" \in DOMAIN exp[e].body.data[t]
                  /\ "items" \notin DOMAIN exp[e].body.data[t]
            /\ \A t \in Succeeded(exp[e]) :
                  /\ exp[e].body.data[t].type = "array"
                  /\ exp[e].body.data[t].items = exp[e].replies[t].rows

\* An answered export with one failed and three succeeding tables, one of
\* them non-empty.
C2_Witness ==
    /\ exp[1].phase = "done"
    /\ Failed(exp[1]) = {"reminders"}
    /\ Len(exp[1].body.data["medications"].items) = 1

\* ------------------------------------------------------------------ C3

\* C3: a dashboard or export response exists only when all four of the
\* request's queries have settled, whatever the order of the callbacks.
C3_ResponseAfterAllSettled ==
    /\ \A d \in DashIds :
          dash[d].sent > 0 => dash[d].pending = {} /\ DOMAIN dash[d].replies = Tables
    /\ \A e \in ExpIds :
          exp[e].sent > 0 => exp[e].pending = {} /\ DOMAIN exp[e].replies = Tables

\* The export is answered while the dashboard request, whose last three
\* queries have settled before its first, is not.
C3_Witness ==
    /\ exp[1].sent = 1
    /\ dash[1].pending = {"medications"}
    /\ dash[1].completedQueries = 3
    /\ dash[1].sent = 0

\* ------------------------------------------------------------------ C4 .. C8

\* The medications list of request i's body, when it has one.
ListOf(i) == Medications(imp[i].body).items
HasList(i) == HasMedications(imp[i].body) /\ Medications(imp[i].body).type = "array"

\* The stored row the specification documents for an input record.
ExpectedRow(med) ==
    [name |-> med.name, dosage |-> med.dosage, frequency |-> med.frequency,
     time |-> med.time,
     taken |-> IF "taken" \in DOMAIN med /\ med.taken = "true" THEN 1 ELSE 0]

ExpectedRows(L) == [k \in 1..Len(L) |-> ExpectedRow(L[k])]

\* C4: an import whose body has no data field is answered 400 and issues no
\* query, so that it leaves the medications table as it found it.
C4_NoDataNoQuery ==
    \A i \in ImpIds :
        imp[i].phase # "idle" /\ "data" \notin DOMAIN imp[i].body =>
            /\ imp[i].status = 400
            /\ imp[i].queries = 0
            /\ imp[i].del = "none" /\ imp[i].ins = "none"
            /\ ~imp[i].disturbed => tables["medications"] = imp[i].before

\* A data-less import answered over a table that holds a row.
C4_Witness ==
    /\ imp[1].phase = "done"
    /\ "data" \notin DOMAIN imp[1].body
    /\ imp[1].before # <<>>
    /\ ~imp[1].disturbed

\* C5: once an import of a non-empty medications list L has answered success
\* and no other writer has written since it started, the table holds exactly
\* the rows of L in order, with taken = 0 (false) where the record has no
\* taken field.
C5_ImportReplaces ==
    \A i \in ImpIds :
        (/\ imp[i].status = 200
         /\ HasList(i)
         /\ ~imp[i].disturbed) =>
            (Len(ListOf(i)) > 0 => tables["medications"] = ExpectedRows(ListOf(i)))

\* A successful import of a two-record list, the first without a taken field,
\* over a table that held a row.
C5_Witness ==
    /\ imp[1].status = 200
    /\ HasList(1)
    /\ Len(ListOf(1)) = 2
    /\ "taken" \notin DOMAIN ListOf(1)[1]
    /\ "taken" \in DOMAIN ListOf(1)[2]
    /\ imp[1].before # <<>>
    /\ ~imp[1].disturbed

\* An import of the empty medications list.
EmptyList(i) == imp[i].phase # "idle" /\ HasList(i) /\ ListOf(i) = <<>>

\* C6 as stated, for a table that held rows: an import of the empty list
\* issues the DELETE and no INSERT, leaves the table empty and answers success.
C6_Original ==
    \A i \in ImpIds :
        (EmptyList(i) /\ imp[i].before # <<>>) =>
            /\ imp[i].del # "none" /\ imp[i].ins = "none"
            /\ imp[i].phase = "done" =>
                  /\ imp[i].status = 200
                  /\ ~imp[i].disturbed => tables["medications"] = <<>>

\* C6 amended: an import of the empty list issues the DELETE and no INSERT;
\* when the DELETE succeeds it answers success and leaves the table empty;
\* when the DELETE fails it answers 500 and leaves the table as it was.
C6_EmptyListDeletes ==
    \A i \in ImpIds :
        EmptyList(i) =>
            /\ imp[i].del # "none" /\ imp[i].ins = "none" /\ imp[i].queries = 1
            /\ imp[i].del = "ok" =>
                  /\ imp[i].status = 200
                  /\ imp[i].reply.success = TRUE
                  /\ ~imp[i].disturbed => tables["medications"] = <<>>
            /\ imp[i].del = "err" =>
                  /\ imp[i].status = 500
                  /\ ~imp[i].disturbed => tables["medications"] = imp[i].before

\* An import of the empty list answered success over a table that held a row.
C6_Witness ==
    /\ EmptyList(1)
    /\ imp[1].status = 200
    /\ imp[1].before # <<>>
    /\ tables["medications"] = <<>>
    /\ ~imp[1].disturbed

\* C7, for a table that held rows: the INSERT of an import is issued only
\* after its DELETE has succeeded, so that rows are never inserted over the
\* rows the table held before.
C7_InsertAfterDelete ==
    \A i \in ImpIds :
        imp[i].before # <<>> =>
            /\ imp[i].ins # "none" => imp[i].del = "ok"
            /\ (imp[i].ins = "ok" /\ ~imp[i].disturbed) =>
                  tables["medications"] = ExpectedRows(ListOf(i))

\* C8: an import whose DELETE or INSERT failed is answered 500 with the
\* generic body, never success; what its statements did stays: the rows a
\* successful DELETE removed stay removed when the INSERT fails, and the rows
\* a successful INSERT added stay when the DELETE had failed.
C8_ImportFailure ==
    \A i \in ImpIds :
        /\ (imp[i].del = "err" \/ imp[i].ins = "err") =>
              /\ imp[i].status = 500
              /\ imp[i].reply = [error |-> "Failed to import data"]
              /\ imp[i].promise = "rejected"
        /\ (imp[i].del = "ok" /\ imp[i].ins = "err" /\ ~imp[i].disturbed) =>
              tables["medications"] = <<>>
        /\ (imp[i].del = "err" /\ imp[i].ins = "ok" /\ ~imp[i].disturbed) =>
              tables["medications"] = imp[i].before \o ExpectedRows(ListOf(i))

\* An import whose DELETE emptied a table that held a row and whose INSERT
\* then failed.
C8_Witness ==
    /\ imp[1].del = "ok" /\ imp[1].ins = "err"
    /\ imp[1].before # <<>>
    /\ imp[1].status = 500
    /\ ~imp[1].disturbed

\* ------------------------------------------------------------------ C9

\* The database contents between the start of request d and its last answer.
SeenBy(d) == {history[k] : k \in dash[d].since .. dash[d].upto}

\* The four sub-results of a response.
SubResults(d) == [t \in Tables |-> dash[d].body[t]]

C10_LostStartsReconnect ==
    [][\A code \in {"PROTOCOL_CONNECTION_LOST", "ECONNRESET"} :
          (dbState = "connected" /\ DbError(code)) =>
              (dbState' = "disconnected" /\ attempts' = attempts + 1
               /\ proc' = proc)]_vars

\* A connection-reset event has arrived: the state is Disconnected and a
\* connect attempt is in flight.
C10_Witness ==
    /\ lastError = "ECONNRESET"
    /\ dbState = "disconnected"
    /\ attempts > 0
    /\ proc = "running"

\* ------------------------------------------------------------------ C11

\* C11: the supervisor starts Disconnected; a connect attempt that succeeds
\* leaves the state Connected; one that fails leaves the state as it was and
\* adds exactly one retry timer; so while the process runs Disconnected an
\* attempt or a retry timer is always pending; and if connect attempts fail
\* only finitely often, a Disconnected running process reaches Connected
\* (or is shut down first).
C11_Supervisor ==
    /\ dbState = "disconnected"
    /\ [][/\ ConnectOk => dbState' = "connected"
          /\ ConnectFail => /\ dbState' = dbState
                            /\ timers' = timers + 1
                            /\ attempts' = attempts - 1]_vars
    /\ []((proc = "running" /\ dbState = "disconnected") => attempts + timers > 0)
    /\ (<>[][~ConnectFail]_vars) =>
          ((proc = "running" /\ dbState = "disconnected")
              ~> (dbState = "connected" \/ proc # "running"))

\* The first attempt has failed: the state is Disconnected, no attempt is in
\* flight and its one retry timer is pending.
C11_Witness ==
    /\ dbState = "disconnected"
    /\ proc = "running"
    /\ attempts = 0
    /\ timers = 1
    /\ lastError = "none"

\* ------------------------------------------------------------------ C12

\* The tables whose query of request r failed with a connectivity error.
ConnFailed(r) == {t \in DOMAIN r.replies : r.replies[t].err \in ConnCodes}

\* C12 as stated: a dashboard, export or import request one of whose queries
\* failed with a connectivity error is answered with the 503 of the
\* error-handling middleware.
C12_Original ==
    /\ \A d \in DashIds :
          (dash[d].phase = "done" /\ ConnFailed(dash[d]) # {}) =>
              \A t \in ConnFailed(dash[d]) :
                  dash[d].status = ErrorMiddleware(dash[d].replies[t].err)
    /\ \A e \in ExpIds :
          (exp[e].phase = "done" /\ ConnFailed(exp[e]) # {}) =>
              \A t \in ConnFailed(exp[e]) :
                  exp[e].status = ErrorMiddleware(exp[e].replies[t].err)
    /\ \A i \in ImpIds :
          imp[i].failure \in ConnCodes => imp[i].status = ErrorMiddleware(imp[i].failure)

\* C12, amended: a connectivity error of a query never reaches the client as
\* a 503.  The dashboard answers 200 with the zero fallback of the failing
\* table, the export answers 200 with {error: message} for the failing table,
\* and the import answers 500 with its generic body.
C12_NeverServiceUnavailable ==
    /\ \A d \in DashIds :
          (dash[d].phase = "done" /\ ConnFailed(dash[d]) # {}) =>
              /\ dash[d].status = 200
              /\ \A t \in ConnFailed(dash[d]) : dash[d].body[t] = ZeroRow(t)
    /\ \A e \in ExpIds :
          (exp[e].phase = "done" /\ ConnFailed(exp[e]) # {}) =>
              /\ exp[e].status = 200
              /\ \A t \in ConnFailed(exp[e]) :
                    exp[e].body.data[t] =
                        [type |-> "object", error |-> Message(exp[e].replies[t].err)]
    /\ \A i \in ImpIds :
          imp[i].failure \in ConnCodes =>
              /\ imp[i].status = 500
              /\ imp[i].reply = [error |-> "Failed to import data"]

\* All three requests have been answered, each after a query of its own
\* failed with a connectivity error.
C12_Witness ==
    /\ dash[1].phase = "done" /\ ConnFailed(dash[1]) # {}
    /\ exp[1].phase = "done" /\ ConnFailed(exp[1]) # {}
    /\ imp[1].phase = "done" /\ imp[1].failure = "ECONNREFUSED"

\* ------------------------------------------------------------------ C13

\* C13: a dashboard or export request all of whose queries are called back
\* is answered, and one with a query that is never called back is never
\* answered.
C13_AnsweredIffAllCallBack ==
    /\ \A d \in DashIds :
          (dash[d].phase = "running" /\ dash[d].hung = {}) ~> (dash[d].sent = 1)
    /\ \A e \in ExpIds :
          (exp[e].phase = "running" /\ exp[e].hung = {}) ~> (exp[e].sent = 1)
    /\ [](\A d \in DashIds :
            dash[d].hung # {} => (dash[d].sent = 0 /\ dash[d].phase # "done"))
    /\ [](\A e \in ExpIds :
            exp[e].hung # {} => (exp[e].sent = 0 /\ exp[e].phase # "done"))

\* The export request has been answered after its four callbacks, while the
\* dashboard request, three of whose queries were called back, waits
\* unanswered for the fourth.
C13_Witness ==
    /\ exp[1].hung = {} /\ exp[1].sent = 1 /\ exp[1].completedQueries = TotalQueries
    /\ dash[1].hung # {} /\ dash[1].pending = dash[1].hung
    /\ dash[1].completedQueries = TotalQueries - 1
    /\ dash[1].sent = 0

\* ------------------------------------------------------------------ C14

\* The import request i came with data that has no medications key.
NoMedicationsKey(i) ==
    /\ imp[i].phase # "idle"
    /\ "data" \in DOMAIN imp[i].body
    /\ "medications" \notin DOMAIN imp[i].body.data

\* C14: an import whose data has no medications key issues no query, is
\* answered {success: true}, and leaves every table as it found it.
C14_NoMedicationsKey ==
    \A i \in ImpIds :
        NoMedicationsKey(i) =>
            /\ imp[i].queries = 0
            /\ imp[i].del = "none" /\ imp[i].ins = "none"
            /\ imp[i].status = 200
            /\ imp[i].reply.success = TRUE
            /\ \A t \in Tables \ {"medications"} : tables[t] = history[1][t]
            /\ ~imp[i].disturbed => tables["medications"] = imp[i].before

\* An import of reminders and vitals alone has been answered success over a
\* medications table that holds a row.
C14_Witness ==
    /\ NoMedicationsKey(1)
    /\ "vitals" \in DOMAIN imp[1].body.data
    /\ imp[1].status = 200
    /\ imp[1].before # <<>>
    /\ tables["medications"] = imp[1].before

\* ------------------------------------------------------------------ C15

\* C15: a firing of the liveness check starts one connect attempt and changes
\* nothing else when the state is not Connected, and changes nothing at all
\* when the state is Connected.
C15_LivenessCheck ==
    [][LivenessCheck =>
          IF dbState # "connected"
          THEN /\ attempts' = attempts + 1
               /\ UNCHANGED <<tables, history, dash, exp, imp, dbState, timers, proc,
                              endCalls, exitCode, lastError, released>>
          ELSE UNCHANGED vars]_vars

\* No error event has arrived and no attempt has failed: the attempt still in
\* flight beside the one that connected was started by a liveness check.
C15_Witness ==
    /\ dbState = "connected"
    /\ attempts = 1
    /\ timers = 0
    /\ lastError = "none"
    /\ proc = "running"

\* ------------------------------------------------------------------ C16

\* C16: a reconnect trigger (a liveness check that finds the state not
\* Connected, or a lost-connection error event) starts a connect attempt
\* also when an attempt or a retry timer is already pending.
C16_TriggersNotDeduplicated ==
    [][\A code \in {"PROTOCOL_CONNECTION_LOST", "ECONNRESET"} :
          (/\ attempts + timers > 0
           /\ (LivenessCheck /\ dbState # "connected") \/ DbError(code))
              => attempts' = attempts + 1]_vars

\* Two connect attempts are in flight at once.
C16_Witness ==
    /\ attempts >= 2
    /\ proc = "running"

\* ------------------------------------------------------------------ C17

\* C17: an error event with a code other than the two lost-connection codes
\* starts no connect attempt and no retry timer; it calls shutdown() as a
\* termination signal does, and the process then exits.
C17_FatalErrorShutsDown ==
    /\ [][\A code \in ErrorEventCodes \ {"PROTOCOL_CONNECTION_LOST", "ECONNRESET"} :
            DbError(code) => /\ attempts' = attempts
                             /\ timers' = timers
                             /\ proc' = "closing"
                             /\ endCalls' = endCalls + 1]_vars
    /\ (lastError = "EPIPE") ~> (proc = "exited")

\* The process has exited after an error event that is not a lost connection.
C17_Witness ==
    /\ lastError = "EPIPE"
    /\ proc = "exited"

\* ------------------------------------------------------------------ C18

\* C18: a termination signal calls db.end; the process exits only in the
\* db.end callback, with code 0 when db.end reported no error and with code 1
\* when it reported one; and a process that is closing exits.
C18_ExitAfterRelease ==
    /\ [][Signal => (proc' = "closing" /\ endCalls' = endCalls + 1
                     /\ released' = released)]_vars
    /\ [](proc = "closing" => (endCalls > 0 /\ released = "none"))
    /\ [](proc = "exited" =>
            (released # "none" /\ exitCode = IF released = "ok" THEN 0 ELSE 1))
    /\ (proc = "closing") ~> (proc = "exited")

\* A termination signal, with no error event before it, has ended in exit
\* code 1 because db.end reported an error.
C18_Witness ==
    /\ proc = "exited"
    /\ lastError = "none"
    /\ released = "err"
    /\ exitCode = 1

\* ------------------------------------------------------------------ C19

\* Both import requests carried a medications list and were answered success.
BothSucceeded ==
    /\ HasList(1) /\ imp[1].status = 200
    /\ HasList(2) /\ imp[2].status = 200

\* C19 as stated: after two imports that both answer success the table
\* holds exactly the rows of one of the two lists.
C19_Original ==
    BothSucceeded =>
        tables["medications"] \in {ExpectedRows(ListOf(1)), ExpectedRows(ListOf(2))}

\* C19, amended: after two imports that both answer success the table holds
\* the rows of one list, or the rows of both lists, one list after the other.
C19_OneListOrBoth ==
    BothSucceeded =>
        tables["medications"] \in
            {ExpectedRows(ListOf(1)), ExpectedRows(ListOf(2)),
             ExpectedRows(ListOf(1)) \o ExpectedRows(ListOf(2)),
             ExpectedRows(ListOf(2)) \o ExpectedRows(ListOf(1))}

\* Two imports of different lists were in flight together, both answered
\* success, and the table holds the rows of the first followed by the rows
\* of the second.
C19_Witness ==
    /\ BothSucceeded
    /\ ListOf(1) # <<>> /\ ListOf(2) # <<>> /\ ListOf(1) # ListOf(2)
    /\ imp[1].disturbed /\ imp[2].disturbed
    /\ tables["medications"] = ExpectedRows(ListOf(1)) \o ExpectedRows(ListOf(2))

\* ------------------------------------------------------------------ C20

\* The import of a non-empty list over a non-empty table was answered success.
ImportOverRows ==
    /\ HasList(1) /\ ListOf(1) # <<>>
    /\ imp[1].before # <<>>
    /\ imp[1].status = 200

\* The medications entry of an export that reads the rows given.
MedsExported(rows) ==
    [type |-> "array",
     items |-> [k \in 1..Len(rows) |-> SelectedRow("medications", rows[k])]]

\* The export (the dashboard) request was answered and its medications query
\* had succeeded.
ExportRead == exp[1].phase = "done" /\ "medications" \in Succeeded(exp[1])
DashRead == dash[1].phase = "done" /\ "medications" \in Succeeded(dash[1])

\* C20 as stated: beside a successful import of a non-empty list over a
\* non-empty table, the medications entry of an export and of a dashboard
\* response is that of the rows before the import or of the rows after it.
C20_Original ==
    ImportOverRows =>
        /\ ExportRead =>
              exp[1].body.data["medications"] \in
                  {MedsExported(imp[1].before), MedsExported(ExpectedRows(ListOf(1)))}
        /\ DashRead =>
              dash[1].body["medications"] \in
                  {Summary("medications", imp[1].before),
                   Summary("medications", ExpectedRows(ListOf(1)))}

\* C20, amended: the medications entry is that of the rows before the
\* import, of the rows after it, or of the empty table the request's query
\* finds between the import's DELETE and its INSERT.
C20_BeforeBetweenOrAfter ==
    ImportOverRows =>
        /\ ExportRead =>
              exp[1].body.data["medications"] \in
                  {MedsExported(imp[1].before), MedsExported(ExpectedRows(ListOf(1))),
                   MedsExported(<<>>)}
        /\ DashRead =>
              dash[1].body["medications"] \in
                  {Summary("medications", imp[1].before),
                   Summary("medications", ExpectedRows(ListOf(1))),
                   Summary("medications", <<>>)}

\* The import has succeeded and the table holds its row, while the export
\* answered an empty medications list and the dashboard a total of 0.
C20_Witness ==
    /\ ImportOverRows
    /\ tables["medications"] = ExpectedRows(ListOf(1))
    /\ ExportRead /\ exp[1].body.data["medications"] = MedsExported(<<>>)
    /\ DashRead /\ dash[1].body["medications"] = Summary("medications", <<>>)

\* ------------------------------------------------------------------ C21

\* Import i was started with the data object of export e, whose medications
\* entry is an error descriptor.
ImportsDescriptor(i, e) ==
    /\ imp[i].phase # "idle"
    /\ exp[e].phase = "done"
    /\ imp[i].body = ExportedBody(e)
    /\ "medications" \in Failed(exp[e])

\* C21: an import of the data object of an export whose medications query
\* failed leaves the medications table, when it held rows, with the rows it
\* held.
C21_DescriptorKeepsRows ==
    (ImportsDescriptor(1, 1) /\ imp[1].before # <<>>) =>
        tables["medications"] = imp[1].before

\* ------------------------------------------------------------------ C22

\* The export read the medications table, and the import of the data object
\* it returned was answered success.
RoundTripped ==
    /\ exp[1].phase = "done"
    /\ "medications" \in Succeeded(exp[1])
    /\ imp[1].body = ExportedBody(1)
    /\ imp[1].status = 200

\* C22: after an export that read the medications table and a successful
\* import of the data object it returned, with no other writer, the table
\* holds the sequence of rows (name, dosage, frequency, time, taken) it held
\* before the export.
C22_RoundTrip ==
    RoundTripped => tables["medications"] = history[1]["medications"]

\* A table of two different rows, one taken and one not, has been exported,
\* deleted and inserted again, and holds the same two rows in the same order.
C22_Witness ==
    /\ RoundTripped
    /\ imp[1].del = "ok" /\ imp[1].ins = "ok"
    /\ Len(history[1]["medications"]) = 2
    /\ history[1]["medications"][1].taken = 1
    /\ history[1]["medications"][2].taken = 0
    /\ tables["medications"] = history[1]["medications"]

\* ------------------------------------------------------------------ C23

\* C23: no dashboard, export or import request sends more than one
\* response, an answered dashboard or export request has sent exactly one,
\* and an import whose DELETE failed and whose INSERT has been answered,
\* with rows or with an error, has sent exactly one.
C23_AtMostOneResponse ==
    /\ \A d \in DashIds :
          dash[d].sent <= 1 /\ (dash[d].phase = "done" => dash[d].sent = 1)
    /\ \A e \in ExpIds :
          exp[e].sent <= 1 /\ (exp[e].phase = "done" => exp[e].sent = 1)
    /\ \A i \in ImpIds :
          /\ imp[i].sent <= 1
          /\ (imp[i].del = "err" /\ imp[i].ins \in {"ok", "err"}) => imp[i].sent = 1

\* The import's DELETE failed and its INSERT succeeded, a query of the
\* dashboard and a query of the export failed, and each of the three
\* requests has sent one response.
C23_Witness ==
    /\ imp[1].del = "err" /\ imp[1].ins = "ok" /\ imp[1].sent = 1
    /\ dash[1].phase = "done" /\ Failed(dash[1]) # {} /\ dash[1].sent = 1
    /\ exp[1].phase = "done" /\ Failed(exp[1]) # {} /\ exp[1].sent = 1

====
